---- MODULE Spec2Model ----
(***************************************************************************)
(* Model of pymatgen/io/openmm/schema.py.                                  *)
(*                                                                         *)
(* InputMoleculeSpec is a pydantic model: constructing it walks the fields *)
(* in declaration order (smile, count, name, charge_scaling, force_field,  *)
(* geometries, partial_charges, partial_charge_label, max_conformers).     *)
(* For each field the framework                                            *)
(*   - takes the default without validating when the key is missing and    *)
(*     no validator of the field is declared always=True,                  *)
(*   - otherwise runs the pre validators, the type's own check and the     *)
(*     post validators; a ValueError, TypeError or AssertionError raised   *)
(*     there is recorded under the field's name and the field is left out  *)
(*     of `values`; any other exception leaves the constructor as it is,   *)
(*   - and goes on to the next field in either case.                       *)
(* After the last field the recorded errors, if any, are raised together   *)
(* as one ValidationError.                                                 *)
(*                                                                         *)
(* Abstractions of the external collaborators:                             *)
(*   tk.Molecule.from_smiles : the table SmilesAtoms (0 = cannot parse)    *)
(*   xyz_to_molecule         : a geometry source is the number of          *)
(*                             positions it parses to (0 = cannot parse)   *)
(*   floats                  : charge_scaling in hundredths; the value of  *)
(*                             a partial charge is immaterial and is 0     *)
(*   strings that get lowercased : sequences of one-character strings      *)
(***************************************************************************)
EXTENDS Integers, Sequences, FiniteSets, TLC

VARIABLES raw, pc, values, errors, outcome, molecule_specs, agg_i, set_contents

vars == <<raw, pc, values, errors, outcome, molecule_specs, agg_i, set_contents>>

validatorVars == <<raw, pc, values, errors, outcome>>
aggregatorVars == <<molecule_specs, agg_i, set_contents>>

(***************************************************************************)
(* Bounds                                                                  *)
(***************************************************************************)
\* longest raw geometries list
MaxGeoms == 2
\* most positions in a geometry source, and longest partial_charges list
MaxLen == 2
\* longest molecule_specs list handed to the aggregator
MaxSpecs == 2
\* largest population count of a specification handed to the aggregator
MaxCount == 2

(***************************************************************************)
(* Field values.  A raw key is missing, None, or a value; an entry of      *)
(* `values` is unset (the key is not in the dict), None, or a value.       *)
(***************************************************************************)
Missing(d) == [kind |-> "missing", v |-> d]
None(d) == [kind |-> "none", v |-> d]
Val(x) == [kind |-> "value", v |-> x]
Unset(d) == [kind |-> "unset", v |-> d]

\* values.get(key) is None: the key is absent or holds None
GetIsNone(e) == e.kind \in {"unset", "none"}

\* results of validating one field
Ok(e) == [tag |-> "ok", val |-> e, exc |-> ""]
Invalid(exc, d) == [tag |-> "invalid", val |-> Unset(d), exc |-> exc]
Raise(exc, d) == [tag |-> "raise", val |-> Unset(d), exc |-> exc]

Fields ==
  << "smile", "count", "name", "charge_scaling", "force_field", "geometries",
     "partial_charges", "partial_charge_label", "max_conformers" >>

NFields == Len(Fields)

FieldIndex(f) == CHOOSE i \in 1..NFields : Fields[i] = f

(***************************************************************************)
(* External collaborators                                                  *)
(***************************************************************************)
Smiles == {"[Li+]", "[OH-]", "C("}

\* tk.Molecule.from_smiles(smile).n_atoms; 0 stands for "raises"
SmilesAtoms(s) ==
  CASE s = "[Li+]" -> 1
    [] s = "[OH-]" -> 2
    [] OTHER -> 0

SmilesParses(s) == SmilesAtoms(s) > 0

\* xyz_to_molecule(xyz): a source parses unless it is 0
XyzParses(src) == src > 0
XyzLen(src) == src

Lower(c) ==
  CASE c = "T" -> "t"
    [] c = "I" -> "i"
    [] c = "P" -> "p"
    [] OTHER -> c

\* str.lower()
LowerStr(s) == [i \in 1..Len(s) |-> Lower(s[i])]

(***************************************************************************)
(* Error labels.  The code raises ValueError with a message, or lets the   *)
(* framework's type check fail; the labels are the names the error         *)
(* taxonomy gives them:                                                    *)
(*   InvalidIdentityError    "Invalid SMILES string: ..."                  *)
(*   InvalidGeometryError    "Invalid xyz file or molecule: ..."           *)
(*   GeometryMismatchError   "All geometries must have the same number..." *)
(*   MissingGeometryError    "geometries must be set if partial_charges.." *)
(*   LengthMismatchError     "partial_charges must be the same length..."  *)
(*   InconsistentLabelError  "partial_charges must be set if partial_..."  *)
(*   RangeError              confloat(ge=0.1, le=10) refuses the value     *)
(*   InvalidCountError       PositiveInt refuses the value                 *)
(*   TypeError               list(None)                                    *)
(* KeyError, AttributeError and IndexError are not validation errors: the  *)
(* framework does not catch them and the caller receives them as raised.   *)
(***************************************************************************)

\* confloat(ge=0.1, le=10), in hundredths
ChargeScalingGe == 10
ChargeScalingLe == 1000
\* the default charge_scaling, 1.0, in hundredths
ChargeScalingDefault == 100
\* the default max_conformers
MaxConformersDefault == 1

(***************************************************************************)
(* The validators of InputMoleculeSpec                                     *)
(***************************************************************************)
\* Geometry.xyz_is_valid: whether Geometry(xyz=src) can be built
xyz_is_valid(src) == XyzParses(src)

smile_is_valid(smile) ==
  IF SmilesParses(smile) THEN Ok(Val(smile)) ELSE Invalid("InvalidIdentityError", "")

\* force_field.lower(); None has no such attribute
lower_case_ff(ff) ==
  IF ff.kind = "none" THEN Raise("AttributeError", <<>>) ELSE Ok(Val(LowerStr(ff.v)))

\* values["smile"] raises KeyError when smile did not validate
set_name(name, vals) ==
  IF name.kind = "none"
    THEN IF vals.smile.kind = "unset" THEN Raise("KeyError", "") ELSE Ok(vals.smile)
    ELSE Ok(name)

convert_xyz_to_geometry(geometries, vals) ==
  IF geometries.kind # "none"
    THEN LET g == geometries.v IN
         IF \E i \in 1..Len(g) : ~xyz_is_valid(g[i])
           THEN Invalid("InvalidGeometryError", <<>>)
         ELSE IF vals.smile.kind = "unset"
           THEN Raise("KeyError", <<>>)
         ELSE IF ~(\A i \in 1..Len(g) : XyzLen(g[i]) = SmilesAtoms(vals.smile.v))
           THEN Invalid("GeometryMismatchError", <<>>)
         ELSE Ok(Val([i \in 1..Len(g) |-> XyzLen(g[i])]))
    ELSE Ok(geometries)

check_geometry_is_set(partial_charges, vals) ==
  IF partial_charges.kind # "none"
    THEN IF GetIsNone(vals.geometries)
           THEN Invalid("MissingGeometryError", <<>>)
         ELSE IF vals.geometries.v = <<>>
           THEN Raise("IndexError", <<>>)
         ELSE IF ~(Len(partial_charges.v) = vals.geometries.v[1])
           THEN Invalid("LengthMismatchError", <<>>)
         ELSE Ok(partial_charges)
    ELSE Invalid("TypeError", <<>>)

check_partial_charges_are_set(partial_charge_label, vals) ==
  IF partial_charge_label.kind # "none"
    THEN IF GetIsNone(vals.partial_charges)
           THEN Invalid("InconsistentLabelError", "")
           ELSE Ok(partial_charge_label)
    ELSE IF GetIsNone(vals.partial_charges)
           THEN Ok(None(""))
           ELSE Ok(Val("custom"))

(***************************************************************************)
(* The fields: what validating the raw key `rv` yields, given the fields   *)
(* validated so far.                                                       *)
(***************************************************************************)
\* smile: str, required
SmileField(rv, vals) ==
  IF rv.kind = "missing" THEN Invalid("MissingError", "") ELSE smile_is_valid(rv.v)

\* count: int, required; any integer is taken
CountField(rv, vals) ==
  IF rv.kind = "missing" THEN Invalid("MissingError", 0) ELSE Ok(rv)

\* name: Optional[str] = None, validator always=True
NameField(rv, vals) ==
  set_name(IF rv.kind = "missing" THEN None("") ELSE rv, vals)

\* charge_scaling: Optional[confloat(ge=0.1, le=10)] = 1.0
ChargeScalingField(rv, vals) ==
  IF rv.kind = "missing" THEN Ok(Val(ChargeScalingDefault))
  ELSE IF rv.kind = "none" THEN Ok(rv)
  ELSE IF rv.v < ChargeScalingGe \/ rv.v > ChargeScalingLe
    THEN Invalid("RangeError", 0)
  ELSE Ok(rv)

\* force_field: Optional[constr(to_lower=True)] = None, pre validator
ForceFieldField(rv, vals) ==
  IF rv.kind = "missing" THEN Ok(None(<<>>))
  ELSE LET r == lower_case_ff(rv) IN
       IF r.tag = "ok" THEN Ok(Val(LowerStr(r.val.v))) ELSE r

\* geometries: Optional[List[Geometry]] = None, pre validator
GeometriesField(rv, vals) ==
  IF rv.kind = "missing" THEN Ok(None(<<>>)) ELSE convert_xyz_to_geometry(rv, vals)

\* partial_charges: Optional[List[float]] = None, pre validator
PartialChargesField(rv, vals) ==
  IF rv.kind = "missing" THEN Ok(None(<<>>)) ELSE check_geometry_is_set(rv, vals)

\* partial_charge_label: Optional[str] = None, pre validator
PartialChargeLabelField(rv, vals) ==
  IF rv.kind = "missing" THEN Ok(None("")) ELSE check_partial_charges_are_set(rv, vals)

\* max_conformers: PositiveInt = 1
MaxConformersField(rv, vals) ==
  IF rv.kind = "missing" THEN Ok(Val(MaxConformersDefault))
  ELSE IF rv.v > 0 THEN Ok(rv)
  ELSE Invalid("InvalidCountError", 0)

(***************************************************************************)
(* Raw specifications                                                      *)
(***************************************************************************)
SeqsUpTo(S, n) == UNION {[1..k -> S] : k \in 0..n}

TIP3P == <<"T", "I", "P", "3", "P">>
tip3p == <<"t", "i", "p", "3", "p">>

RawSpecs ==
  [ smile : {Val(s) : s \in Smiles},
    count : {Val(c) : c \in {0, 1}},
    name : {Missing(""), Val("water")},
    charge_scaling : {Missing(0), Val(5), Val(100)},
    force_field : {Missing(<<>>), None(<<>>), Val(TIP3P), Val(tip3p)},
    geometries : {Missing(<<>>), None(<<>>)}
                   \cup {Val(g) : g \in SeqsUpTo(0..MaxLen, MaxGeoms)},
    partial_charges : {Missing(<<>>), None(<<>>)}
                   \cup {Val([i \in 1..n |-> 0]) : n \in 0..MaxLen},
    partial_charge_label : {Missing(""), None(""), Val("am1bcc")},
    max_conformers : {Missing(0), Val(0), Val(1)} ]

\* no raw specification at all: every key missing
NoRaw ==
  [ smile |-> Missing(""), count |-> Missing(0), name |-> Missing(""),
    charge_scaling |-> Missing(0), force_field |-> Missing(<<>>),
    geometries |-> Missing(<<>>), partial_charges |-> Missing(<<>>),
    partial_charge_label |-> Missing(""), max_conformers |-> Missing(0) ]

\* the empty `values` dict the walk starts from
NoValues ==
  [ smile |-> Unset(""), count |-> Unset(0), name |-> Unset(""),
    charge_scaling |-> Unset(0), force_field |-> Unset(<<>>),
    geometries |-> Unset(<<>>), partial_charges |-> Unset(<<>>),
    partial_charge_label |-> Unset(""), max_conformers |-> Unset(0) ]

(***************************************************************************)
(* Constructing InputMoleculeSpec: one step per field, then __init__ ends   *)
(***************************************************************************)
\* a walk that stops at the first recorded error
FailFastNextField(i, errs) == IF errs # <<>> THEN NFields + 1 ELSE i + 1

\* the field visited after field i: the loop goes on whatever was recorded
NextField(i, errs) == i + 1

\* what the framework does with the result r of validating field f
Apply(f, r) ==
  /\ pc = FieldIndex(f)
  /\ outcome = "running"
  /\ CASE r.tag = "ok" ->
            /\ values' = [values EXCEPT ![f] = r.val]
            /\ errors' = errors
            /\ pc' = NextField(pc, errors')
            /\ outcome' = outcome
       [] r.tag = "invalid" ->
            /\ values' = values
            /\ errors' = Append(errors, [loc |-> f, type |-> r.exc])
            /\ pc' = NextField(pc, errors')
            /\ outcome' = outcome
       [] OTHER ->
            /\ outcome' = r.exc
            /\ UNCHANGED <<values, errors, pc>>
  /\ UNCHANGED <<raw, aggregatorVars>>

ValidateSmile == Apply("smile", SmileField(raw.smile, values))
ValidateCount == Apply("count", CountField(raw.count, values))
ValidateName == Apply("name", NameField(raw.name, values))
ValidateChargeScaling ==
  Apply("charge_scaling", ChargeScalingField(raw.charge_scaling, values))
ValidateForceField == Apply("force_field", ForceFieldField(raw.force_field, values))
ValidateGeometries == Apply("geometries", GeometriesField(raw.geometries, values))
ValidatePartialCharges ==
  Apply("partial_charges", PartialChargesField(raw.partial_charges, values))
ValidatePartialChargeLabel ==
  Apply("partial_charge_label",
        PartialChargeLabelField(raw.partial_charge_label, values))
ValidateMaxConformers ==
  Apply("max_conformers", MaxConformersField(raw.max_conformers, values))

\* the end of __init__: raise the recorded errors together, or return the object
Finish ==
  /\ pc > NFields
  /\ outcome = "running"
  /\ outcome' = IF errors # <<>> THEN "ValidationError" ELSE "ok"
  /\ UNCHANGED <<raw, pc, values, errors, aggregatorVars>>

(***************************************************************************)
(* SetContents.  schema.py only declares the dataclass; the function that  *)
(* fills it is not in this file and is modelled from its description: for  *)
(* each specification, in input order, `count` contiguous repetitions of   *)
(* the molecule's per-atom type and residue-name identifiers are appended  *)
(* to the flat arrays, and one force-field keyword and one charge-method   *)
(* label are appended per specification.                                   *)
(***************************************************************************)
\* per-atom type identifiers of one molecule of the species
MolAtomTypes(smile) ==
  CASE smile = "[Li+]" -> <<0>>
    [] smile = "[OH-]" -> <<0, 1>>
    [] OTHER -> <<>>

\* per-atom residue-name identifiers of one molecule of the k-th species
MolAtomResnames(smile, k) == [a \in 1..Len(MolAtomTypes(smile)) |-> k]

\* MoleculeSpec values (formal_charge and molgraph play no part here)
MoleculeSpecs ==
  [ name : {"water"},
    count : 0..MaxCount,
    smile : {"[Li+]", "[OH-]"},
    force_field : {"sage", "tip3p"},
    charge_method : {"am1bcc"} ]

RECURSIVE Repeat(_, _)
\* n contiguous repetitions of block
Repeat(block, n) == IF n <= 0 THEN <<>> ELSE block \o Repeat(block, n - 1)

\* a block appended once per specification instead of once per molecule
SpecBlockOnce(block, count) == block

\* the block one specification contributes to a flat array
SpecBlock(block, count) == Repeat(block, count)

EmptyContents ==
  [ force_fields |-> <<>>, partial_charge_methods |-> <<>>,
    atom_types |-> <<>>, atom_resnames |-> <<>> ]

\* one turn of the aggregation loop: the next specification is appended
AppendSpec ==
  /\ agg_i < Len(molecule_specs)
  /\ LET k == agg_i + 1
         m == molecule_specs[k]
     IN  /\ set_contents' =
              [ force_fields |-> Append(set_contents.force_fields, m.force_field),
                partial_charge_methods |->
                  Append(set_contents.partial_charge_methods, m.charge_method),
                atom_types |->
                  set_contents.atom_types \o SpecBlock(MolAtomTypes(m.smile), m.count),
                atom_resnames |->
                  set_contents.atom_resnames
                    \o SpecBlock(MolAtomResnames(m.smile, k), m.count) ]
         /\ agg_i' = k
  /\ UNCHANGED <<molecule_specs, validatorVars>>

(***************************************************************************)
(* Specifications                                                          *)
(***************************************************************************)
Init ==
  /\ raw \in RawSpecs
  /\ pc = 1
  /\ values = NoValues
  /\ errors = <<>>
  /\ outcome = "running"
  /\ molecule_specs = <<>>
  /\ agg_i = 0
  /\ set_contents = EmptyContents

Next ==
  \/ ValidateSmile
  \/ ValidateCount
  \/ ValidateName
  \/ ValidateChargeScaling
  \/ ValidateForceField
  \/ ValidateGeometries
  \/ ValidatePartialCharges
  \/ ValidatePartialChargeLabel
  \/ ValidateMaxConformers
  \/ Finish

Spec == Init /\ [][Next]_vars

\* the aggregator on its own: no specification is being validated
InitAgg ==
  /\ raw = NoRaw
  /\ pc = 1
  /\ values = NoValues
  /\ errors = <<>>
  /\ outcome = "idle"
  /\ molecule_specs \in SeqsUpTo(MoleculeSpecs, MaxSpecs)
  /\ agg_i = 0
  /\ set_contents = EmptyContents

NextAgg == AppendSpec

SpecAgg == InitAgg /\ [][NextAgg]_vars

(***************************************************************************)
(* Claims                                                                  *)
(***************************************************************************)
Crashes == {"KeyError", "AttributeError", "IndexError"}

\* the constructor has returned or raised
Done == outcome # "running"

Reported(f) == \E i \in 1..Len(errors) : errors[i].loc = f

HasError(f, t) == \E i \in 1..Len(errors) : errors[i] = [loc |-> f, type |-> t]

\* the caller receives a ValidationError that carries error t of field f
FailsWith(f, t) == outcome = "ValidationError" /\ HasError(f, t)

\* C1: whenever the identity string cannot be parsed, whatever the other
\* fields are, the constructor fails with the identity error and with no
\* other kind of exception.
C1_InvalidIdentityAlwaysReported ==
  (Done /\ ~SmilesParses(raw.smile.v))
    => FailsWith("smile", "InvalidIdentityError")

\* C2: a specification that validates with partial_charges supplied and
\* partial_charge_label omitted ends with the label "custom".
C2_OmittedLabelDefaultsToCustom ==
  (outcome = "ok" /\ raw.partial_charges.kind = "value"
     /\ raw.partial_charge_label.kind = "missing")
    => values.partial_charge_label = Val("custom")

ErrorsInFieldOrder ==
  \A i, j \in 1..Len(errors) :
    i < j => FieldIndex(errors[i].loc) < FieldIndex(errors[j].loc)

C4_NonPositiveCountsRejected ==
  outcome = "ok" =>
    /\ raw.count.v > 0
    /\ raw.max_conformers.kind = "value" => raw.max_conformers.v > 0

\* every geometry source of the raw list parses
AllParse(g) == \A i \in 1..Len(g) : XyzParses(g[i])

\* C5: a validated specification with geometries has only geometries whose
\* position count is the atom count of the identity string, and a list in
\* which some geometry has another count fails with GeometryMismatchError.
C5_GeometryCountsMatch ==
  /\ (outcome = "ok" /\ values.geometries.kind = "value") =>
       \A i \in 1..Len(values.geometries.v) :
         values.geometries.v[i] = SmilesAtoms(raw.smile.v)
  /\ (Done /\ SmilesParses(raw.smile.v) /\ raw.geometries.kind = "value"
        /\ AllParse(raw.geometries.v)
        /\ \E i \in 1..Len(raw.geometries.v) :
             XyzLen(raw.geometries.v[i]) # SmilesAtoms(raw.smile.v))
       => FailsWith("geometries", "GeometryMismatchError")

\* C6: whenever partial charges are supplied and geometries are not present
\* (omitted, None, or rejected by the geometry step), validation fails with
\* MissingGeometryError, and no such specification validates.
C6_ChargesNeedGeometries ==
  (Done /\ raw.partial_charges.kind = "value"
     /\ (raw.geometries.kind \in {"missing", "none"} \/ Reported("geometries")))
    => FailsWith("partial_charges", "MissingGeometryError")

\* C7: whenever partial charges are supplied with a geometry list the
\* geometry step accepted, of any length, validation succeeds only if the
\* charge list is as long as the first resolved geometry, and otherwise
\* fails with LengthMismatchError.
C7_ChargesMatchFirstGeometry ==
  (Done /\ raw.partial_charges.kind = "value" /\ values.geometries.kind = "value")
    => LET g == values.geometries.v
           fits == g # <<>> /\ Len(raw.partial_charges.v) = g[1]
       IN  /\ outcome = "ok" => fits
           /\ ~fits => FailsWith("partial_charges", "LengthMismatchError")

\* C8: whenever a label is supplied and partial charges are not set (omitted,
\* or not accepted by the partial-charge step), validation fails with
\* InconsistentLabelError, and no validated specification has a label
\* without partial charges.
C8_LabelNeedsCharges ==
  /\ (Done /\ raw.partial_charge_label.kind = "value"
        /\ (raw.partial_charges.kind = "missing" \/ Reported("partial_charges")))
       => FailsWith("partial_charge_label", "InconsistentLabelError")
  /\ (outcome = "ok" /\ values.partial_charge_label.kind = "value")
       => values.partial_charges.kind = "value"

\* C9: a force-field keyword that is present is stored in lowercase, and an
\* absent force field, omitted or given as None, is valid: validation raises
\* no error for it and leaves the force field unset.
C9_ForceFieldLowercasedOrAbsent ==
  /\ values.force_field.kind = "value" =>
       /\ raw.force_field.kind = "value"
       /\ values.force_field.v = LowerStr(raw.force_field.v)
       /\ \A i \in 1..Len(values.force_field.v) :
            values.force_field.v[i] \notin {"T", "I", "P"}
  /\ (pc > FieldIndex("force_field") /\ raw.force_field.kind = "value")
       => values.force_field.kind = "value"
  /\ raw.force_field.kind \in {"missing", "none"} =>
       /\ outcome # "AttributeError"
       /\ ~Reported("force_field")
       /\ pc > FieldIndex("force_field") => values.force_field.kind = "none"

RECURSIVE AtomsBefore(_, _)
\* atoms contributed by the first k specifications
AtomsBefore(specs, k) ==
  IF k = 0 THEN 0
  ELSE AtomsBefore(specs, k - 1)
         + specs[k].count * Len(MolAtomTypes(specs[k].smile))

\* C10: a SetContents value has flat atom_types and atom_resnames arrays of
\* length sum(count x atoms per molecule), one contiguous block per
\* specification repeated count times, in the order of molecule_specs, and
\* one force-field keyword and one charge-method label per specification in
\* that order.
C10_FlatLayout ==
  agg_i = Len(molecule_specs) =>
    LET n == Len(molecule_specs)
        sc == set_contents
    IN  /\ Len(sc.atom_types) = AtomsBefore(molecule_specs, n)
        /\ Len(sc.atom_resnames) = AtomsBefore(molecule_specs, n)
        /\ Len(sc.force_fields) = n
        /\ Len(sc.partial_charge_methods) = n
        /\ \A k \in 1..n :
             LET m == molecule_specs[k]
                 t == MolAtomTypes(m.smile)
                 off == AtomsBefore(molecule_specs, k - 1)
             IN  /\ sc.force_fields[k] = m.force_field
                 /\ sc.partial_charge_methods[k] = m.charge_method
                 /\ \A r \in 1..m.count : \A a \in 1..Len(t) :
                      /\ sc.atom_types[off + (r - 1) * Len(t) + a] = t[a]
                      /\ sc.atom_resnames[off + (r - 1) * Len(t) + a] = k

\* C10 witness: two specifications with different counts and different
\* numbers of atoms have been aggregated.
C10_Witness ==
  /\ Len(molecule_specs) = 2
  /\ agg_i = 2
  /\ molecule_specs[1].count = 2
  /\ molecule_specs[1].smile = "[OH-]"
  /\ molecule_specs[2].count = 1
  /\ molecule_specs[2].smile = "[Li+]"
  /\ set_contents.atom_types = <<0, 1, 0, 1, 0>>

====
